---- MODULE Spec2Model ----
(***************************************************************************)
(* A model of testrail-cli's core (src/src/core.js): the three commands    *)
(* init, finish and report, the retry loop they share, the extraction of   *)
(* case results from xUnit XML and the resolution of case ids.             *)
(*                                                                         *)
(* JavaScript values are modelled as follows.                              *)
(*   - An object is a function from its property names; a property the     *)
(*     object does not have (undefined) is a name outside its DOMAIN.      *)
(*   - A value that may be null or undefined (a resolved case id, an       *)
(*     argument of a command, the exit code of the process) is a sequence  *)
(*     of length at most one: Null is <<>>, the value v is <<v>>.          *)
(*   - A number with a fractional part (the time attribute) is an integer  *)
(*     count of tenths.                                                    *)
(*   - A string built by concatenation (n + 's') is the tuple of its       *)
(*     parts, <<n, "s">>; a file path is the sequence of its characters.   *)
(*   - process.exit is the exit of the node process: nothing of the        *)
(*     command runs after it.                                              *)
(***************************************************************************)
EXTENDS Integers, Sequences, FiniteSets, TLC

VARIABLES
  configs,            \* the configs object handed to constructCore
  apiCallsAttempted,  \* the closure's attempt counter
  pc,                 \* where the invocation is: idle, reading, awaiting, exited, returned, threw
  command,            \* the command invoked and its arguments
  exitCode,           \* the code process.exit was called with, Null before
  files,              \* report: the selected files, a sequence of [path, doc]
  pending,            \* report: the indexes of the reads still in flight
  fileContents,       \* report: the contents read so far, by index in files
  caseResults,        \* report: the accumulated case results
  requests,           \* the remote calls issued so far, in order
  inFlight,           \* the number of remote calls not yet answered
  response,           \* the last response received, parsed
  nResponses,         \* how many responses were received
  nUnsuccessful,      \* how many of them the handler classified unsuccessful
  stdout,             \* what console.log last printed
  stderr,             \* what console.error last printed
  fsAccessed,         \* whether the file system was touched
  readOrder,          \* report: the indexes of the reads, in the order they completed
  probe               \* the input and the output of a pure function applied on its own

vars == <<configs, apiCallsAttempted, pc, command, exitCode, files, pending,
          fileContents, caseResults, requests, inFlight, response, nResponses, nUnsuccessful,
          stdout, stderr, fsAccessed, readOrder, probe>>

----------------------------------------------------------------------------
(* Values *)

Null == <<>>

EmptyObject == <<>>

Has(object, property) == property \in DOMAIN object

\* What console.log or console.error printed: a text and the value
\* concatenated to it, Null when there is none.
Line(text, value) == [text |-> text, value |-> value]
Nothing == Line("", Null)

\* The value of response before any response has come.
NoResponse == [none |-> TRUE]

\* The tables an input is drawn from: every function from a subset of keys.
PartialFunctions(keys, values) == UNION {[d -> values] : d \in SUBSET keys}

RECURSIVE SeqsUpTo(_, _)
SeqsUpTo(S, n) ==
  IF n = 0 THEN {<<>>}
  ELSE LET shorter == SeqsUpTo(S, n - 1)
       IN shorter \cup {Append(s, x) : s \in {t \in shorter : Len(t) = n - 1}, x \in S}

----------------------------------------------------------------------------
(* Entity decoding: HtmlEntities.decode on the strings the inputs use *)

decode(str) ==
  CASE str = "&amp;" -> "&"
    [] str = "&#67;" -> "C"
    [] str = "Oops &amp; fail" -> "Oops & fail"
    [] OTHER -> str

----------------------------------------------------------------------------
(* Case identity resolution *)

\* A table entry is used when it is truthy: present and not 0.
resolveCaseIdFromTestCase(testCase) ==
  LET testClass == decode(testCase.attributes.class)
      testName == decode(testCase.attributes.name)
  IN IF /\ Has(configs, "caseClassAndNameToIdMap")
        /\ Has(configs.caseClassAndNameToIdMap, testClass)
        /\ Has(configs.caseClassAndNameToIdMap[testClass], testName)
        /\ configs.caseClassAndNameToIdMap[testClass][testName] # 0
     THEN <<configs.caseClassAndNameToIdMap[testClass][testName]>>
     ELSE IF /\ Has(configs, "caseNameToIdMap")
             /\ Has(configs.caseNameToIdMap, testName)
             /\ configs.caseNameToIdMap[testName] # 0
          THEN <<configs.caseNameToIdMap[testName]>>
          ELSE Null

----------------------------------------------------------------------------
(* The parsed XML tree (xml-parser): a node has a tag name, attributes and *)
(* an ordered sequence of child nodes.                                     *)

Node(name, attributes, children) ==
  [name |-> name, attributes |-> attributes, children |-> children]

\* The number a time attribute converts to (Number(str)), in tenths.
Number(str) ==
  CASE str = "0" -> 0
    [] str = "" -> 0
    [] str = "0.5" -> 5
    [] str = "3" -> 30
    [] str = "4.2" -> 42
    [] str = "-0.5" -> -5
    [] str = "-2" -> -20

\* A faulty variant of ceil: rounds down, as Math.floor would.
ceil_roundsDown(tenths) == tenths \div 10

\* Math.ceil of a number given in tenths: whole seconds.
ceil(tenths) ==
  IF tenths % 10 = 0 THEN tenths \div 10 ELSE (tenths \div 10) + 1

\* caseResult.elapsed, when the testcase has a time attribute.
elapsedOf(attributes) ==
  IF Has(attributes, "time")
  THEN LET time == IF Number(attributes.time) = 0 THEN 10 ELSE Number(attributes.time)
       IN ("elapsed" :> <<ceil(time), "s">>)
  ELSE EmptyObject

\* A faulty variant of statusOf: the comment is taken from the last child.
statusOf_lastChild(testcase) ==
  IF Len(testcase.children) = 0
  THEN ("status_id" :> 1)
  ELSE LET last == testcase.children[Len(testcase.children)].attributes
       IN ("status_id" :> 5) @@
          (IF Has(last, "message") /\ last.message # ""
           THEN ("comment" :> decode(last.message))
           ELSE EmptyObject)

\* caseResult.status_id and caseResult.comment.
statusOf(testcase) ==
  IF Len(testcase.children) = 0
  THEN ("status_id" :> 1)
  ELSE LET first == testcase.children[1].attributes
       IN ("status_id" :> 5) @@
          (IF Has(first, "message") /\ first.message # ""
           THEN ("comment" :> decode(first.message))
           ELSE EmptyObject)

\* The caseResult object built for one testcase node, before it is filtered.
caseResultOf(testcase) ==
  ("case_id" :> resolveCaseIdFromTestCase(testcase))
    @@ elapsedOf(testcase.attributes)
    @@ statusOf(testcase)

\* if (caseResult.case_id): the id is neither null nor 0.
isMapped(caseResult) ==
  caseResult.case_id # Null /\ caseResult.case_id[1] # 0

\* The body of the forEach over a testsuite's children, from child i on.
RECURSIVE forEachTestcase(_, _, _)
forEachTestcase(children, i, acc) ==
  IF i > Len(children) THEN acc
  ELSE LET testcase == children[i]
           next == IF testcase.name = "testcase" /\ isMapped(caseResultOf(testcase))
                   THEN [acc EXCEPT !.caseResults = Append(@, caseResultOf(testcase))]
                   ELSE acc
       IN forEachTestcase(children, i + 1, next)

\* parseXmlIntoCaseResults on a root; acc.exited is set by process.exit(1),
\* after which nothing runs.
RECURSIVE parseXmlIntoCaseResults(_, _), forEachTestSuite(_, _, _)
\* A faulty variant of parseXmlIntoCaseResults: a root that is neither kind of suite is
\* skipped instead of ending the process.
parseXmlIntoCaseResults_skipsUnknownRoot(root, acc) ==
  IF acc.exited THEN acc
  ELSE IF root.name = "testsuite" /\ Len(root.children) > 0
       THEN forEachTestcase(root.children, 1, acc)
       ELSE IF root.name = "testsuites"
            THEN forEachTestSuite(root.children, 1, acc)
            ELSE acc

\* A faulty variant of parseXmlIntoCaseResults: a testsuites root is required to have
\* children, as a testsuite root is.
parseXmlIntoCaseResults_emptySuitesInvalid(root, acc) ==
  IF acc.exited THEN acc
  ELSE IF root.name = "testsuite" /\ Len(root.children) > 0
       THEN forEachTestcase(root.children, 1, acc)
       ELSE IF root.name = "testsuites" /\ Len(root.children) > 0
            THEN forEachTestSuite(root.children, 1, acc)
            ELSE [acc EXCEPT !.exited = TRUE]

parseXmlIntoCaseResults(root, acc) ==
  IF acc.exited THEN acc
  ELSE IF root.name = "testsuite" /\ Len(root.children) > 0
       THEN forEachTestcase(root.children, 1, acc)
       ELSE IF root.name = "testsuites"
            THEN forEachTestSuite(root.children, 1, acc)
            ELSE [acc EXCEPT !.exited = TRUE]

\* A faulty variant of forEachTestSuite: the children are visited from the last
\* to the first.
RECURSIVE forEachTestSuite_lastFirst(_, _, _)
forEachTestSuite_lastFirst(children, i, acc) ==
  IF i > Len(children) \/ acc.exited THEN acc
  ELSE forEachTestSuite_lastFirst(children, i + 1,
         parseXmlIntoCaseResults(children[Len(children) - i + 1], acc))

\* xml.root.children.forEach over the children of a testsuites root, from
\* child i on.
forEachTestSuite(children, i, acc) ==
  IF i > Len(children) \/ acc.exited THEN acc
  ELSE forEachTestSuite(children, i + 1, parseXmlIntoCaseResults(children[i], acc))

\* fileContents.forEach: every file's root in turn, into one accumulator.
RECURSIVE forEachFile(_, _, _)
forEachFile(contents, i, acc) ==
  IF i > Len(contents) \/ acc.exited THEN acc
  ELSE forEachFile(contents, i + 1, parseXmlIntoCaseResults(contents[i], acc))

NoResults == [caseResults |-> <<>>, exited |-> FALSE]

----------------------------------------------------------------------------
(* Bounds and the sets the inputs are drawn from *)

MaxKids == 2      \* children of a testcase node
MaxNodes == 3     \* testcase-level nodes of a document
MaxSuites == 2    \* testsuite children of a testsuites root
MaxFiles == 2     \* entries of a directory
MaxInvocations == 2  \* commands invoked one after another on one core object

CaseIds == {0, 7, 8}
Names == {"A", "&"}
Classes == {"C"}
RawNames == {"A", "&amp;", "B"}
RawClasses == {"C", "&#67;", "D"}
TimeStrings == {"0", "", "0.5", "3", "4.2", "-0.5", "-2"}

NameTables == PartialFunctions(Names, CaseIds)
ClassTables == PartialFunctions(Classes, NameTables)

\* Every configs object: each of the two tables absent or present.
Configs ==
  {flat @@ byClass :
     flat \in {EmptyObject} \cup {("caseNameToIdMap" :> t) : t \in NameTables},
     byClass \in {EmptyObject} \cup {("caseClassAndNameToIdMap" :> t) : t \in ClassTables}}

\* The configs objects the commands and the extraction run with.
ClassOnlyConfig == ("caseClassAndNameToIdMap" :> ("C" :> ("A" :> 7)))
FlatOnlyConfig == ("caseNameToIdMap" :> (("A" :> 8) @@ ("&" :> 7)))
BothConfig ==
  ("caseClassAndNameToIdMap" :> ("C" :> (("A" :> 7) @@ ("&" :> 0))))
    @@ ("caseNameToIdMap" :> ("A" :> 8))
EmptyConfig == ("caseNameToIdMap" :> EmptyObject)
SmallConfigs == {ClassOnlyConfig, FlatOnlyConfig, BothConfig, EmptyConfig}

\* The children a testcase node may have: the first is the failure indicator.
ChildPool ==
  { Node("failure", EmptyObject, <<>>),
    Node("failure", ("message" :> ""), <<>>),
    Node("failure", ("message" :> "Oops &amp; fail"), <<>>),
    Node("system-out", ("message" :> "second"), <<>>) }

Testcases ==
  { Node("testcase", ("name" :> n) @@ ("class" :> c) @@ t, kids) :
      n \in RawNames, c \in RawClasses,
      t \in {EmptyObject} \cup {("time" :> str) : str \in TimeStrings},
      kids \in SeqsUpTo(ChildPool, MaxKids) }

\* The (class, name) pairs the resolver is applied to.
ResolveInputs ==
  { Node("testcase", ("name" :> n) @@ ("class" :> c), <<>>) :
      n \in RawNames, c \in RawClasses }

\* The children of a testsuite node that documents are built from.
PassingA == Node("testcase", ("name" :> "A") @@ ("class" :> "C") @@ ("time" :> "0"), <<>>)
FailingAmp ==
  Node("testcase", ("name" :> "&amp;") @@ ("class" :> "C") @@ ("time" :> "4.2"),
       <<Node("failure", ("message" :> "Oops &amp; fail"), <<>>)>>)
UnmappedB == Node("testcase", ("name" :> "B") @@ ("class" :> "C"), <<>>)
Properties == Node("properties", EmptyObject, <<>>)
SuiteChildPool == {PassingA, FailingAmp, UnmappedB, Properties}

TestSuite(children) == Node("testsuite", ("name" :> "suite"), children)

\* Sequences of at most count children of a testsuites root that hold at most
\* budget testcase-level nodes in all; a child is a testsuite or a stray node.
RECURSIVE SuiteSeqs(_, _)
SuiteSeqs(budget, count) ==
  IF count = 0 THEN {<<>>}
  ELSE {<<>>} \cup UNION
         { { <<first>> \o rest : rest \in SuiteSeqs(budget - Len(first.children), count - 1) } :
             first \in {TestSuite(c) : c \in SeqsUpTo(SuiteChildPool, budget)} \cup {Properties} }

Docs ==
  {TestSuite(c) : c \in SeqsUpTo(SuiteChildPool, MaxNodes)}
    \cup {Node("testsuites", EmptyObject, suites) : suites \in SuiteSeqs(MaxNodes, MaxSuites)}
    \cup {Node("html", EmptyObject, <<PassingA>>)}

----------------------------------------------------------------------------
(* The state after constructCore(TestRail, configs, process, console) *)

Constructed(possibleConfigs) ==
  /\ configs \in possibleConfigs
  /\ apiCallsAttempted = 0
  /\ pc = "idle"
  /\ command = [name |-> "none"]
  /\ exitCode = Null
  /\ files = <<>>
  /\ pending = {}
  /\ fileContents = EmptyObject
  /\ caseResults = <<>>
  /\ requests = <<>>
  /\ inFlight = 0
  /\ response = NoResponse
  /\ nResponses = 0
  /\ nUnsuccessful = 0
  /\ stdout = Nothing
  /\ stderr = Nothing
  /\ fsAccessed = FALSE
  /\ readOrder = <<>>
  /\ probe = [op |-> "none"]

core == <<configs, apiCallsAttempted, pc, command, exitCode, files, pending,
          fileContents, caseResults, requests, inFlight, response, nResponses, nUnsuccessful,
          stdout, stderr, fsAccessed, readOrder>>

----------------------------------------------------------------------------
(* The pure functions applied on their own *)

\* commands._resolveCaseIdFrom(testCase)
Resolve ==
  /\ probe.op = "none"
  /\ \E testCase \in ResolveInputs :
       probe' = [op |-> "resolve", testCase |-> testCase,
                 out |-> resolveCaseIdFromTestCase(testCase)]
  /\ UNCHANGED core

InitResolve == Constructed(Configs)
NextResolve == Resolve
SpecResolve == InitResolve /\ [][NextResolve]_vars

\* The caseResult built for one testcase node.
Reduce ==
  /\ probe.op = "none"
  /\ \E testcase \in Testcases :
       probe' = [op |-> "caseResult", testcase |-> testcase,
                 out |-> caseResultOf(testcase),
                 pushed |-> isMapped(caseResultOf(testcase))]
  /\ UNCHANGED core

InitCase == Constructed(SmallConfigs)
NextCase == Reduce
SpecCase == InitCase /\ [][NextCase]_vars

\* parseXmlIntoCaseResults(xml) on one document, from an empty caseResults.
Extract ==
  /\ probe.op = "none"
  /\ \E root \in Docs :
       probe' = [op |-> "extract", root |-> root,
                 out |-> parseXmlIntoCaseResults(root, NoResults)]
  /\ UNCHANGED core

InitExtract == Constructed(SmallConfigs)
NextExtract == Extract
SpecExtract == InitExtract /\ [][NextExtract]_vars

----------------------------------------------------------------------------
(* The remote service's responses *)

maxCallAttemptsAllowed == 5

\* A parsed response: an object with some of the fields id, completed_on and
\* error, or an array of a given length.
ObjectBodies ==
  {[isArray |-> FALSE] @@ id @@ completed @@ error :
     id \in {EmptyObject, ("id" :> 12)},
     completed \in {EmptyObject, ("completed_on" :> 99)},
     error \in {EmptyObject, ("error" :> "e1"), ("error" :> "e2")}}
ArrayBodies == {[isArray |-> TRUE, length |-> n] : n \in {0, 2}}
Bodies == ObjectBodies \cup ArrayBodies

Malformed == [malformed |-> TRUE]

\* What the callback is handed: the structured value, or its JSON text; a
\* text may be one that JSON.parse throws on.
Responses ==
  {[form |-> f, body |-> b] : f \in {"object", "string"}, b \in Bodies}
    \cup {[form |-> "string", body |-> Malformed]}

\* typeof response === 'string' ? JSON.parse(response) : response
parseThrows(raw) == raw.form = "string" /\ raw.body = Malformed
parsed(raw) == raw.body

\* A faulty variant of errorOf: the error is read from the response received before
\* this one.
errorOf_previous(body) == IF Has(response, "error") THEN <<response.error>> ELSE Null

\* response.error as it is concatenated into the message: undefined is Null.
errorOf(body) == IF Has(body, "error") THEN <<body.error>> ELSE Null

\* The three success tests of the callbacks.
hasId(body) == Has(body, "id") /\ body.id # 0
\* A faulty variant of hasCompletedOn: the test of the addRun callback, copied.
hasCompletedOn_testsId(body) == Has(body, "id") /\ body.id # 0
hasCompletedOn(body) == Has(body, "completed_on") /\ body.completed_on # 0
isNonEmptyArray(body) == body.isArray /\ body.length # 0

\* How the command's callback classifies a parsed response: the record kept
\* of each response, in nUnsuccessful, is taken with this test.
isSuccess(name, body) ==
  CASE name = "init" -> Has(body, "id")
    [] name = "finish" -> Has(body, "completed_on")
    [] name = "report" -> body.isArray /\ body.length > 0

unsuccessfulAfter(body) ==
  IF isSuccess(command.name, body) THEN nUnsuccessful ELSE nUnsuccessful + 1

addRunCall(projectId, suiteId, name, description, milestoneId) ==
  [call |-> "addRun", projectId |-> projectId, suiteId |-> suiteId, name |-> name,
   description |-> description, milestoneId |-> milestoneId]
closeRunCall(runId) == [call |-> "closeRun", runId |-> runId]
\* A faulty variant of addResultsForCasesCall: once attempts were consumed, the batch
\* is sent without its first entry.
addResultsForCasesCall_dropsFirst(runId, results) ==
  [call |-> "addResultsForCases", runId |-> runId,
   results |-> IF apiCallsAttempted > 0 THEN Tail(results) ELSE results]

addResultsForCasesCall(runId, results) ==
  [call |-> "addResultsForCases", runId |-> runId, results |-> results]

\* !value for an argument that is a number or a string.
\* A faulty variant of missingNumber: the argument is never found missing.
missingNumber_never(value) == FALSE
missingNumber(value) == value = Null \/ value = <<0>>
missingString(value) == value = Null \/ value = <<"">>

\* A faulty variant of incremented: the counter is moved by two.
incremented_byTwo(n) == n + 2

\* apiCallsAttempted++
incremented(n) == n + 1

\* A faulty variant of sent: the call is handed to TestRail twice.
sent_twice(n) == n + 2

\* The calls in flight once one more is handed to TestRail.
sent(n) == n + 1

\* The calls in flight once the callback of one of them runs.
received(n) == n - 1

\* process.exit(code) after a message on one of the two streams.
exitWith(code) == exitCode' = <<code>> /\ pc' = "exited"

\* An exception nothing catches: the callback ends there.
throws == pc' = "threw" /\ UNCHANGED exitCode

----------------------------------------------------------------------------
(* init *)

\* initializeTestRun up to the call of TestRail.addRun.
initializeTestRun(projectId, name, suiteId, description, milestoneId) ==
  /\ command' = [name |-> "init", projectId |-> projectId, runName |-> name,
                 suiteId |-> suiteId, description |-> description,
                 milestoneId |-> milestoneId]
  /\ IF missingNumber(projectId) \/ missingString(name)
     THEN /\ stderr' = Line("You must supply a projectId (-p or --projectId=) and runName (-n or --runName=).", Null)
          /\ exitWith(1)
          /\ UNCHANGED <<requests, inFlight>>
     ELSE /\ requests' = Append(requests, addRunCall(projectId, suiteId, name, description, milestoneId))
          /\ inFlight' = sent(inFlight)
          /\ pc' = "awaiting"
          /\ UNCHANGED <<stderr, exitCode>>
  /\ UNCHANGED <<configs, apiCallsAttempted, files, pending, fileContents, caseResults,
                 response, nResponses, nUnsuccessful, stdout, fsAccessed, readOrder, probe>>

init ==
  /\ pc = "idle"
  /\ \E projectId \in {Null, <<0>>, <<2>>}, name \in {Null, <<"">>, <<"Automated Run">>},
        suiteId \in {Null, <<3>>} :
       initializeTestRun(projectId, name, suiteId, Null, Null)

\* The callback handed to TestRail.addRun; a retry calls initializeTestRun
\* again with the arguments of the closure, which pass its test again.
addRunCallback ==
  /\ pc = "awaiting" /\ command.name = "init" /\ inFlight > 0
  /\ \E raw \in Responses :
       IF parseThrows(raw)
       THEN /\ throws
            /\ inFlight' = received(inFlight)
            /\ response' = Malformed
            /\ nResponses' = nResponses + 1
            /\ UNCHANGED <<apiCallsAttempted, requests, nUnsuccessful, stdout, stderr>>
       ELSE /\ response' = parsed(raw)
            /\ nResponses' = nResponses + 1
            /\ nUnsuccessful' = unsuccessfulAfter(parsed(raw))
            /\ IF hasId(parsed(raw))
               THEN /\ stdout' = Line("", <<parsed(raw).id>>)
                    /\ exitWith(0)
                    /\ inFlight' = received(inFlight)
                    /\ UNCHANGED <<apiCallsAttempted, requests, stderr>>
               ELSE IF apiCallsAttempted < maxCallAttemptsAllowed
                       THEN /\ apiCallsAttempted' = incremented(apiCallsAttempted)
                            /\ requests' = Append(requests,
                                   addRunCall(command.projectId, command.suiteId, command.runName,
                                              command.description, command.milestoneId))
                            /\ inFlight' = sent(received(inFlight))
                            /\ UNCHANGED <<pc, exitCode, stdout, stderr>>
                       ELSE /\ stderr' = Line("Error initializing test run in TestRail: ", errorOf(parsed(raw)))
                            /\ exitWith(1)
                            /\ inFlight' = received(inFlight)
                            /\ UNCHANGED <<apiCallsAttempted, requests, stdout>>
  /\ UNCHANGED <<configs, command, files, pending, fileContents, caseResults, fsAccessed, readOrder, probe>>

----------------------------------------------------------------------------
(* finish *)

\* closeTestRun up to the call of TestRail.closeRun.
closeTestRun(runId) ==
  /\ command' = [name |-> "finish", runId |-> runId]
  /\ IF missingNumber(runId)
     THEN /\ stderr' = Line("You must supply a runId (-r or --runId=).", Null)
          /\ exitWith(1)
          /\ UNCHANGED <<requests, inFlight>>
     ELSE /\ requests' = Append(requests, closeRunCall(runId))
          /\ inFlight' = sent(inFlight)
          /\ pc' = "awaiting"
          /\ UNCHANGED <<stderr, exitCode>>
  /\ UNCHANGED <<configs, apiCallsAttempted, files, pending, fileContents, caseResults,
                 response, nResponses, nUnsuccessful, stdout, fsAccessed, readOrder, probe>>

finish ==
  /\ pc = "idle"
  /\ \E runId \in {Null, <<0>>, <<10>>} : closeTestRun(runId)

\* The callback handed to TestRail.closeRun.
closeRunCallback ==
  /\ pc = "awaiting" /\ command.name = "finish" /\ inFlight > 0
  /\ \E raw \in Responses :
       IF parseThrows(raw)
       THEN /\ throws
            /\ inFlight' = received(inFlight)
            /\ response' = Malformed
            /\ nResponses' = nResponses + 1
            /\ UNCHANGED <<apiCallsAttempted, requests, nUnsuccessful, stdout, stderr>>
       ELSE /\ response' = parsed(raw)
            /\ nResponses' = nResponses + 1
            /\ nUnsuccessful' = unsuccessfulAfter(parsed(raw))
            /\ IF hasCompletedOn(parsed(raw))
               THEN /\ stdout' = Line("Successfully closed test run ", command.runId)
                    /\ exitWith(0)
                    /\ inFlight' = received(inFlight)
                    /\ UNCHANGED <<apiCallsAttempted, requests, stderr>>
               ELSE IF apiCallsAttempted < maxCallAttemptsAllowed
                       THEN /\ apiCallsAttempted' = incremented(apiCallsAttempted)
                            /\ requests' = Append(requests, closeRunCall(command.runId))
                            /\ inFlight' = sent(received(inFlight))
                            /\ UNCHANGED <<pc, exitCode, stdout, stderr>>
                       ELSE /\ stderr' = Line("There was an error closing the test run: ", errorOf(parsed(raw)))
                            /\ exitWith(1)
                            /\ inFlight' = received(inFlight)
                            /\ UNCHANGED <<apiCallsAttempted, requests, stdout>>
  /\ UNCHANGED <<configs, command, files, pending, fileContents, caseResults, fsAccessed, readOrder, probe>>

----------------------------------------------------------------------------
(* The file system report reads: paths are sequences of characters *)

DotXml == <<".", "x", "m", "l">>
AXml == <<"a">> \o DotXml
BXml == <<"b">> \o DotXml
CXml == <<"c">> \o DotXml
EXml == <<"e">> \o DotXml
NTxt == <<"n", ".", "t", "x", "t">>
Xml == <<"x", "m", "l">>
Dir == <<"d">>
DirSlash == <<"d", "/">>
Missing == <<"z">>

FileNames == {AXml, BXml, CXml, EXml, NTxt, Xml}
DirEntries == {AXml, BXml, CXml, EXml, NTxt}

\* What each file holds, whatever directory it is in.
contentOf(name) ==
  CASE name = AXml -> TestSuite(<<PassingA>>)
    [] name = BXml -> Node("testsuites", EmptyObject,
                           << TestSuite(<<FailingAmp, UnmappedB>>),
                              TestSuite(<<Properties, PassingA>>) >>)
    [] name = CXml -> Node("html", EmptyObject, <<PassingA>>)
    [] name = EXml -> Node("testsuites", EmptyObject, <<>>)
    [] name = NTxt -> TestSuite(<<FailingAmp>>)
    [] name = Xml -> TestSuite(<<PassingA>>)

isFile(path) == path \in FileNames
isDirectory(path) == path \in {Dir, DirSlash}
exists(path) == isFile(path) \/ isDirectory(path)

\* The paths readFile can open, and what it reads there.
readable(path) ==
  \/ path \in FileNames
  \/ /\ Len(path) > 2
     /\ SubSeq(path, 1, 2) = DirSlash
     /\ SubSeq(path, 3, Len(path)) \in DirEntries
readFile(path) ==
  IF path \in FileNames THEN contentOf(path) ELSE contentOf(SubSeq(path, 3, Len(path)))

\* What readdirSync may return: the entries of the directory, in some order.
Listings == {l \in SeqsUpTo(DirEntries, MaxFiles) : \A i, j \in 1..Len(l) : l[i] = l[j] => i = j}

\* str.substring(str.length - n): the last n characters, the whole of a
\* shorter string.
lastChars(str, n) == SubSeq(str, IF Len(str) > n THEN Len(str) - n + 1 ELSE 1, Len(str))

isXmlPath(path) == lastChars(path, 4) = DotXml

RECURSIVE filterXml(_, _)
filterXml(listing, i) ==
  IF i > Len(listing) THEN <<>>
  ELSE (IF isXmlPath(listing[i]) THEN <<listing[i]>> ELSE <<>>) \o filterXml(listing, i + 1)

\* fileOrDir + (fileOrDir ends in '/' ? '' : '/') + dirContent
joinPath(fileOrDir, dirContent) ==
  fileOrDir \o (IF lastChars(fileOrDir, 1) = <<"/">> THEN <<>> ELSE <<"/">>) \o dirContent

\* The files array after the stat of fileOrDir.
selectFiles(fileOrDir, listing) ==
  IF isFile(fileOrDir)
  THEN IF isXmlPath(fileOrDir) THEN <<fileOrDir>> ELSE <<>>
  ELSE IF isDirectory(fileOrDir)
       THEN LET kept == filterXml(listing, 1)
            IN [i \in 1..Len(kept) |-> joinPath(fileOrDir, kept[i])]
       ELSE <<>>

----------------------------------------------------------------------------
(* report *)

\* !fileOrDir: no path, or the empty string.
missingPath(value) == value = Null \/ value = << <<>> >>

\* reportXml up to Promise.all(files.map(readFilesPromises)): the reads are
\* started and the function returns.
reportXml(runId, fileOrDir, listing) ==
  /\ command' = [name |-> "report", runId |-> runId, fileOrDir |-> fileOrDir]
  /\ IF missingPath(fileOrDir) \/ missingNumber(runId)
     THEN /\ stderr' = Line("You must supply a file (-f or --file=) and runId (-r or --runId=).", Null)
          /\ exitWith(1)
          /\ UNCHANGED <<files, pending, fsAccessed>>
     ELSE /\ fsAccessed' = TRUE
          /\ UNCHANGED stderr
          /\ IF ~exists(fileOrDir[1])
             THEN /\ throws
                  /\ UNCHANGED <<files, pending>>
             ELSE /\ files' = selectFiles(fileOrDir[1], listing)
                  /\ pending' = 1..Len(selectFiles(fileOrDir[1], listing))
                  /\ pc' = "reading"
                  /\ UNCHANGED exitCode
  /\ UNCHANGED <<configs, apiCallsAttempted, fileContents, caseResults, requests, inFlight,
                 response, nResponses, nUnsuccessful, stdout, readOrder, probe>>

report ==
  /\ pc = "idle"
  /\ \E runId \in {Null, <<10>>},
        fileOrDir \in {Null, << <<>> >>} \cup {<<path>> : path \in FileNames \cup {Dir, DirSlash, Missing}},
        listing \in Listings :
       /\ (fileOrDir = Null \/ ~isDirectory(fileOrDir[1])) => listing = <<>>
       /\ reportXml(runId, fileOrDir, listing)

\* A faulty variant of resolved: the value is kept at the next free index, in
\* the order of completion.
resolved_inCompletionOrder(values, i, value) ==
  values @@ ((Cardinality(DOMAIN values) + 1) :> value)

\* Promise.all keeps the value a promise resolves with at the index of that
\* promise.
resolved(values, i, value) == values @@ (i :> value)

\* One readFile completes with the file's contents.
readFileSucceeds ==
  /\ pc = "reading"
  /\ \E i \in pending :
       /\ readable(files[i])
       /\ fileContents' = resolved(fileContents, i, readFile(files[i]))
       /\ pending' = pending \ {i}
       /\ readOrder' = Append(readOrder, i)
  /\ UNCHANGED <<configs, apiCallsAttempted, pc, command, exitCode, files, caseResults,
                 requests, inFlight, response, nResponses, nUnsuccessful, stdout, stderr,
                 fsAccessed, probe>>

\* A faulty variant of rejects: the failure is swallowed and the command goes on.
rejects_swallowed == pc' = "reading" /\ UNCHANGED exitCode

\* Promise.all rejects as soon as one promise does, and done(), given no
\* rejection handler, rethrows the error: the callback of done() never runs.
rejects == throws

\* One readFile fails.
readFileFails ==
  /\ pc = "reading"
  /\ \E i \in pending : pending' = pending \ {i}
  /\ rejects
  /\ UNCHANGED <<configs, apiCallsAttempted, command, files, fileContents, caseResults,
                 requests, inFlight, response, nResponses, nUnsuccessful, stdout, stderr,
                 fsAccessed, readOrder, probe>>

\* A faulty variant of hadAny: the results are posted whatever their number.
hadAny_always(results) == TRUE

\* if (caseResults.length)
hadAny(results) == Len(results) # 0

\* The callback of done(): every file is parsed into caseResults, then the
\* results are posted if there are any.
doneCallback ==
  /\ pc = "reading" /\ pending = {}
  /\ LET contents == [i \in 1..Len(files) |-> fileContents[i]]
         out == forEachFile(contents, 1, NoResults)
     IN /\ caseResults' = out.caseResults
        /\ IF out.exited
           THEN /\ stderr' = Line("Invalid xml. Expected root name testsuite", Null)
                /\ exitWith(1)
                /\ UNCHANGED <<requests, inFlight, stdout>>
           ELSE IF hadAny(out.caseResults)
                THEN /\ requests' = Append(requests, addResultsForCasesCall(command.runId, out.caseResults))
                     /\ inFlight' = sent(inFlight)
                     /\ pc' = "awaiting"
                     /\ UNCHANGED <<exitCode, stdout, stderr>>
                ELSE /\ stdout' = Line("Did not parse any test XML files.", Null)
                     /\ pc' = "returned"
                     /\ UNCHANGED <<exitCode, requests, inFlight, stderr>>
  /\ UNCHANGED <<configs, apiCallsAttempted, command, files, pending, fileContents,
                 response, nResponses, nUnsuccessful, fsAccessed, readOrder, probe>>

\* The callback handed to TestRail.addResultsForCases; a retry calls
\* addResultsForCasesAttempt again.
addResultsForCasesCallback ==
  /\ pc = "awaiting" /\ command.name = "report" /\ inFlight > 0
  /\ \E raw \in Responses :
       IF parseThrows(raw)
       THEN /\ throws
            /\ inFlight' = received(inFlight)
            /\ response' = Malformed
            /\ nResponses' = nResponses + 1
            /\ UNCHANGED <<apiCallsAttempted, requests, nUnsuccessful, stdout, stderr>>
       ELSE /\ response' = parsed(raw)
            /\ nResponses' = nResponses + 1
            /\ nUnsuccessful' = unsuccessfulAfter(parsed(raw))
            /\ IF isNonEmptyArray(parsed(raw))
               THEN /\ stdout' = Line("Successfully uploaded <n> test case results to TestRail.",
                                       <<parsed(raw).length>>)
                    /\ exitWith(0)
                    /\ inFlight' = received(inFlight)
                    /\ UNCHANGED <<apiCallsAttempted, requests, stderr>>
               ELSE IF apiCallsAttempted < maxCallAttemptsAllowed
                       THEN /\ apiCallsAttempted' = incremented(apiCallsAttempted)
                            /\ requests' = Append(requests,
                                   addResultsForCasesCall(command.runId, caseResults))
                            /\ inFlight' = sent(received(inFlight))
                            /\ UNCHANGED <<pc, exitCode, stdout, stderr>>
                       ELSE /\ stderr' = Line("There was an error uploading test results to TestRail: ",
                                               errorOf(parsed(raw)))
                            /\ exitWith(1)
                            /\ inFlight' = received(inFlight)
                            /\ UNCHANGED <<apiCallsAttempted, requests, stdout>>
  /\ UNCHANGED <<configs, command, files, pending, fileContents, caseResults, fsAccessed, readOrder, probe>>

----------------------------------------------------------------------------
(* One command invocation on a constructed core *)

Init == Constructed(SmallConfigs)

Next ==
  \/ init
  \/ addRunCallback
  \/ finish
  \/ closeRunCallback
  \/ report
  \/ readFileSucceeds
  \/ readFileFails
  \/ doneCallback
  \/ addResultsForCasesCallback

Spec == Init /\ [][Next]_vars

----------------------------------------------------------------------------
(* Several invocations on one core object *)

\* constructCore takes the process object as a parameter. With the process
\* of node, process.exit ends everything and a core object serves one
\* command. With a process object handed in whose exit records the code and
\* returns, a callback that has called exit ends there, as exit is the last
\* statement of its branch, and the object stays in use: pc = "exited" is
\* then the state of a core whose last command has ended. The commands are
\* invoked with the arguments they require, so that no exit is followed by
\* further statements.

\* Every call issued is the first call of an invocation or a retry, and every
\* retry has incremented the counter.
invocations == Len(requests) - apiCallsAttempted

invokeInit ==
  /\ pc \in {"idle", "exited"}
  /\ invocations < MaxInvocations
  /\ \E suiteId \in {Null, <<3>>} :
       initializeTestRun(<<2>>, <<"Automated Run">>, suiteId, Null, Null)

invokeFinish ==
  /\ pc \in {"idle", "exited"}
  /\ invocations < MaxInvocations
  /\ closeTestRun(<<10>>)

InitSession == Constructed({ClassOnlyConfig})

NextSession ==
  \/ invokeInit
  \/ addRunCallback
  \/ invokeFinish
  \/ closeRunCallback

SpecSession == InitSession /\ [][NextSession]_vars

----------------------------------------------------------------------------
(* One command invocation whose calls are answered and whose reads complete *)

\* Every call handed to TestRail is answered, every readFile completes, with
\* contents or with an error, and the callback of done() runs once every
\* read has given its contents. Nothing obliges a command to be invoked.
Answered ==
  /\ WF_vars(addRunCallback)
  /\ WF_vars(closeRunCallback)
  /\ WF_vars(addResultsForCasesCallback)

ReadsComplete ==
  /\ WF_vars(readFileSucceeds \/ readFileFails)
  /\ WF_vars(doneCallback)

SpecLive == Spec /\ Answered /\ ReadsComplete

----------------------------------------------------------------------------
(* Properties of the retry loop, checked under Spec *)

Invoked == command.name \in {"init", "finish", "report"}

\* C1: when every response received is classified unsuccessful, the remote
\* action is invoked at most 5 times, and the fifth unsuccessful response
\* ends the command in failure.
C1_FiveInvocationsThenFailure ==
  (Invoked /\ nResponses > 0 /\ nUnsuccessful = nResponses)
    => /\ Len(requests) <= 5
       /\ (nResponses = 5 => pc = "exited" /\ exitCode = <<1>>)

\* C2: when the first k-1 responses were classified unsuccessful and the k-th
\* successful, 1 <= k <= 5, the command has ended in success with exactly k
\* remote calls issued and none in flight.
C2_SuccessAfterKInvocations ==
  (/\ Invoked
   /\ nResponses \in 1..5
   /\ nUnsuccessful = nResponses - 1
   /\ response # Malformed
   /\ isSuccess(command.name, response))
    => /\ pc = "exited"
       /\ exitCode = <<0>>
       /\ Len(requests) = nResponses
       /\ inFlight = 0

C2_Witness ==
  /\ command.name = "finish"
  /\ nResponses = 5
  /\ nUnsuccessful = 4
  /\ pc = "exited"
  /\ exitCode = <<0>>
  /\ Len(requests) = 5

----------------------------------------------------------------------------
(* Properties of the resolver, checked under SpecResolve *)

HasClassEntry(testClass, testName) ==
  /\ Has(configs, "caseClassAndNameToIdMap")
  /\ Has(configs.caseClassAndNameToIdMap, testClass)
  /\ Has(configs.caseClassAndNameToIdMap[testClass], testName)

HasFlatEntry(testName) ==
  /\ Has(configs, "caseNameToIdMap")
  /\ Has(configs.caseNameToIdMap, testName)

\* C3: a (class, name) pair with an entry in both tables resolves to the value
\* of the class-qualified entry.
C3_ClassQualifiedTakesPrecedence ==
  probe.op = "resolve" =>
    LET testClass == decode(probe.testCase.attributes.class)
        testName == decode(probe.testCase.attributes.name)
    IN (HasClassEntry(testClass, testName) /\ HasFlatEntry(testName))
         => probe.out = <<configs.caseClassAndNameToIdMap[testClass][testName]>>

\* The same law for the class-qualified entries whose value is not 0, the
\* entries the truthiness test of the resolver lets through.
ClassQualifiedTakesPrecedenceWhenNonZero ==
  probe.op = "resolve" =>
    LET testClass == decode(probe.testCase.attributes.class)
        testName == decode(probe.testCase.attributes.name)
    IN (/\ HasClassEntry(testClass, testName)
        /\ HasFlatEntry(testName)
        /\ configs.caseClassAndNameToIdMap[testClass][testName] # 0)
         => probe.out = <<configs.caseClassAndNameToIdMap[testClass][testName]>>

----------------------------------------------------------------------------
(* Properties of the extraction, checked under SpecExtract *)

\* The testcase nodes of a document, in document order.
RECURSIVE TestcasesOf(_), TestcasesOfSuites(_, _)
TestcasesOf(root) ==
  IF root.name = "testsuite"
  THEN SelectSeq(root.children, LAMBDA child : child.name = "testcase")
  ELSE IF root.name = "testsuites" THEN TestcasesOfSuites(root.children, 1) ELSE <<>>

TestcasesOfSuites(children, i) ==
  IF i > Len(children) THEN <<>>
  ELSE TestcasesOf(children[i]) \o TestcasesOfSuites(children, i + 1)

\* The root is a testsuite, or a testsuites whose children are testsuites.
WellFormed(root) ==
  \/ root.name = "testsuite"
  \/ /\ root.name = "testsuites"
     /\ \A i \in 1..Len(root.children) : root.children[i].name = "testsuite"

HasEntry(testcase) ==
  \/ HasClassEntry(decode(testcase.attributes.class), decode(testcase.attributes.name))
  \/ HasFlatEntry(decode(testcase.attributes.name))

\* C4: a document with N testcase nodes that have an entry in the tables and
\* M that have none (N + M >= 1) is extracted, without abort, into exactly N
\* case results.
C4_ExactlyTheResolvableCases ==
  (/\ probe.op = "extract"
   /\ WellFormed(probe.root)
   /\ Len(TestcasesOf(probe.root)) >= 1)
    => /\ ~probe.out.exited
       /\ Len(probe.out.caseResults) = Len(SelectSeq(TestcasesOf(probe.root), HasEntry))

\* The same law for the documents in which every testsuite has a child, with
\* the entries whose value is not 0: the documents and the entries that the
\* abort on a childless testsuite and the truthiness test of the resolver do
\* not reach.
NoChildlessSuite(root) ==
  IF root.name = "testsuite" THEN Len(root.children) > 0
  ELSE \A i \in 1..Len(root.children) : Len(root.children[i].children) > 0

HasNonZeroEntry(testcase) ==
  LET testClass == decode(testcase.attributes.class)
      testName == decode(testcase.attributes.name)
  IN \/ HasClassEntry(testClass, testName)
        /\ configs.caseClassAndNameToIdMap[testClass][testName] # 0
     \/ HasFlatEntry(testName) /\ configs.caseNameToIdMap[testName] # 0

ExactlyTheResolvableCasesWithoutChildlessSuite ==
  (/\ probe.op = "extract"
   /\ WellFormed(probe.root)
   /\ NoChildlessSuite(probe.root))
    => /\ ~probe.out.exited
       /\ Len(probe.out.caseResults)
            = Len(SelectSeq(TestcasesOf(probe.root), HasNonZeroEntry))

----------------------------------------------------------------------------
(* Properties of the case result of one testcase, checked under SpecCase *)

\* The least whole number of seconds that is not below a number of tenths.
Ceiling(tenths) == CHOOSE n \in -10..10 : 10 * n >= tenths /\ 10 * (n - 1) < tenths

\* C5: a testcase with a time attribute gets elapsed "1s" when the value is
\* zero and the value rounded up to whole seconds otherwise; one without a
\* time attribute gets no elapsed field.
C5_ElapsedRoundedUp ==
  probe.op = "caseResult" =>
    LET attributes == probe.testcase.attributes
    IN IF Has(attributes, "time")
       THEN /\ Has(probe.out, "elapsed")
            /\ probe.out.elapsed =
                 (IF Number(attributes.time) = 0 THEN <<1, "s">>
                  ELSE <<Ceiling(Number(attributes.time)), "s">>)
       ELSE ~Has(probe.out, "elapsed")

C5_Witness ==
  /\ probe.op = "caseResult"
  /\ Has(probe.testcase.attributes, "time")
  /\ probe.testcase.attributes.time = "4.2"
  /\ probe.out.elapsed = <<5, "s">>

\* C6, as claimed: no children gives status 1 and no comment; children give
\* status 5 and the decoded message of the first child as comment, omitted
\* when the first child has no message attribute.
C6_CommentIsFirstChildMessage ==
  probe.op = "caseResult" =>
    LET children == probe.testcase.children
    IN IF Len(children) = 0
       THEN probe.out.status_id = 1 /\ ~Has(probe.out, "comment")
       ELSE /\ probe.out.status_id = 5
            /\ IF Has(children[1].attributes, "message")
               THEN /\ Has(probe.out, "comment")
                    /\ probe.out.comment = decode(children[1].attributes.message)
               ELSE ~Has(probe.out, "comment")

\* C6, amended: the comment is omitted also when the message attribute of the
\* first child is the empty string.
C6_CommentIsFirstChildNonEmptyMessage ==
  probe.op = "caseResult" =>
    LET children == probe.testcase.children
    IN IF Len(children) = 0
       THEN probe.out.status_id = 1 /\ ~Has(probe.out, "comment")
       ELSE /\ probe.out.status_id = 5
            /\ IF /\ Has(children[1].attributes, "message")
                  /\ children[1].attributes.message # ""
               THEN /\ Has(probe.out, "comment")
                    /\ probe.out.comment = decode(children[1].attributes.message)
               ELSE ~Has(probe.out, "comment")

\* A failing testcase whose first child has no message and whose second has.
C6_Witness ==
  /\ probe.op = "caseResult"
  /\ Len(probe.testcase.children) = 2
  /\ ~Has(probe.testcase.children[1].attributes, "message")
  /\ Has(probe.testcase.children[2].attributes, "message")
  /\ probe.out.status_id = 5
  /\ ~Has(probe.out, "comment")

----------------------------------------------------------------------------
(* Properties of report and of the validation of arguments, checked under Spec *)

\* C7: every case result of a batch handed to addResultsForCases has the
\* version "test".
C7_VersionIsTest ==
  \A i \in 1..Len(requests) :
    requests[i].call = "addResultsForCases" =>
      \A j \in 1..Len(requests[i].results) :
        /\ Has(requests[i].results[j], "version")
        /\ requests[i].results[j].version = "test"

InvalidRoot(root) == root.name \notin {"testsuite", "testsuites"}

SelectedInvalidRoot ==
  \E i \in 1..Len(files) : readable(files[i]) /\ InvalidRoot(readFile(files[i]))

\* C8: when a selected file has a root that is neither testsuite nor
\* testsuites, no remote call is ever made, and once the files are parsed the
\* command has failed.
C8_InvalidRootAbortsWithoutSubmit ==
  (command.name = "report" /\ SelectedInvalidRoot)
    => /\ requests = <<>>
       /\ inFlight = 0
       /\ pc \in {"reading", "threw", "exited"}
       /\ (pc = "exited" => exitCode = <<1>>)

\* Results were extracted from an earlier file, then the invalid root ended
\* the command.
C8_Witness ==
  /\ command.name = "report"
  /\ SelectedInvalidRoot
  /\ pc = "exited"
  /\ exitCode = <<1>>
  /\ Len(caseResults) > 0
  /\ requests = <<>>

\* The case results of all the selected files, in file order.
AllResults ==
  forEachFile([i \in 1..Len(files) |-> readFile(files[i])], 1, NoResults).caseResults

Aborted == stderr.text = "Invalid xml. Expected root name testsuite"

\* C9: report calls addResultsForCases if and only if the extracted sequence
\* is non-empty, each time with the whole sequence; with an empty sequence it
\* makes no remote call and prints the no-op message.
C9_SubmitIffNonEmpty ==
  command.name = "report" =>
    /\ \A i \in 1..Len(requests) :
         /\ requests[i].call = "addResultsForCases"
         /\ requests[i].results = AllResults
         /\ requests[i].results # <<>>
    /\ (pc \in {"awaiting", "returned"} \/ (pc = "exited" /\ fsAccessed /\ ~Aborted))
         => IF AllResults # <<>>
            THEN requests # <<>> /\ pc # "returned"
            ELSE /\ requests = <<>>
                 /\ inFlight = 0
                 /\ pc = "returned"
                 /\ stdout.text = "Did not parse any test XML files."

\* Files were selected and read, and none held a resolvable case.
C9_Witness ==
  /\ command.name = "report"
  /\ Len(files) > 0
  /\ pc = "returned"
  /\ requests = <<>>
  /\ stdout.text = "Did not parse any test XML files."

\* C10: a command that lacks a required argument has exited with code 1,
\* with no remote call, no file access and the attempt counter untouched.
C10_MissingArgumentFailsAtOnce ==
  (\/ command.name = "init" /\ (command.projectId = Null \/ command.runName = Null)
   \/ command.name = "finish" /\ command.runId = Null
   \/ command.name = "report" /\ (command.runId = Null \/ command.fileOrDir = Null))
    => /\ pc = "exited"
       /\ exitCode = <<1>>
       /\ requests = <<>>
       /\ inFlight = 0
       /\ ~fsAccessed
       /\ apiCallsAttempted = 0

C10_Witness ==
  /\ command.name = "report"
  /\ command.runId = Null
  /\ command.fileOrDir # Null
  /\ pc = "exited"
  /\ exitCode = <<1>>
  /\ ~fsAccessed

----------------------------------------------------------------------------
(* Properties of the handling of responses, checked under Spec *)

\* C11: a textual response that cannot be deserialized is handled like an
\* unsuccessful one: after it the command has either re-issued its call, one
\* attempt consumed, or, the budget exhausted, has ended in failure with
\* exit code 1.
C11_MalformedHandledAsUnsuccessful ==
  (Invoked /\ response = Malformed)
    => \/ /\ pc = "awaiting"
          /\ inFlight = 1
          /\ Len(requests) = nResponses + 1
          /\ apiCallsAttempted = nResponses
       \/ /\ pc = "exited"
          /\ exitCode = <<1>>

----------------------------------------------------------------------------
(* Properties of a core object that serves several invocations, checked    *)
(* under SpecSession                                                       *)

\* C12: whenever a command is invoked on a core object, the attempt counter
\* is 0 at that moment, whatever an earlier invocation has consumed.
C12_CounterIsZeroAtInvocation ==
  [][(pc \in {"idle", "exited"} /\ pc' = "awaiting") => apiCallsAttempted = 0]_vars

----------------------------------------------------------------------------
(* Properties of the traversal, checked under SpecExtract *)

\* The case results of one testsuite node: those of its testcase children
\* that resolve to a case, in document order.
SuiteResults(suite) ==
  LET kept == SelectSeq(suite.children,
                        LAMBDA child : child.name = "testcase" /\ isMapped(caseResultOf(child)))
  IN [i \in 1..Len(kept) |-> caseResultOf(kept[i])]

RECURSIVE Concatenation(_, _)
Concatenation(suites, i) ==
  IF i > Len(suites) THEN <<>>
  ELSE SuiteResults(suites[i]) \o Concatenation(suites, i + 1)

----------------------------------------------------------------------------
(* Properties of the end of a command, checked under Spec *)

\* C14: a command that has ended on a response has exit code 0 when that
\* response is successful; otherwise the budget is exhausted, the exit code
\* is 1 and the error printed is the error field of that last response.
C14_LastErrorAndExitCodes ==
  (Invoked /\ pc = "exited" /\ nResponses > 0)
    => IF isSuccess(command.name, response)
       THEN exitCode = <<0>> /\ stderr = Nothing
       ELSE /\ exitCode = <<1>>
            /\ apiCallsAttempted = maxCallAttemptsAllowed
            /\ stderr.value = (IF Has(response, "error") THEN <<response.error>> ELSE Null)

\* The budget was exhausted and the last response carried the error e2.
C14_Witness ==
  /\ command.name = "init"
  /\ pc = "exited"
  /\ exitCode = <<1>>
  /\ nResponses = maxCallAttemptsAllowed + 1
  /\ Has(response, "error")
  /\ response.error = "e2"
  /\ stderr = Line("Error initializing test run in TestRail: ", <<"e2">>)

----------------------------------------------------------------------------
(* Properties of the order of calls and responses, checked under Spec *)

\* C15: at most one remote call is in flight at any time, and a call is
\* issued only when every earlier call has been answered: the calls issued
\* are the responses received plus the calls in flight.
C15_AtMostOneInFlight ==
  /\ inFlight \in {0, 1}
  /\ Len(requests) = nResponses + inFlight

\* A retry is in flight, after five answered calls.
C15_Witness ==
  /\ command.name = "report"
  /\ pc = "awaiting"
  /\ nResponses = 5
  /\ Len(requests) = 6
  /\ inFlight = 1

----------------------------------------------------------------------------
(* Properties of the reading of files, checked under Spec *)

\* The case results of one file, extracted on its own.
FileResults(path) == parseXmlIntoCaseResults(readFile(path), NoResults).caseResults

RECURSIVE ConcatenationOfFiles(_)
ConcatenationOfFiles(i) ==
  IF i > Len(files) THEN <<>>
  ELSE FileResults(files[i]) \o ConcatenationOfFiles(i + 1)

\* C16: the batch of every addResultsForCases call is the concatenation of
\* the case results of the selected files in the order of the files array,
\* whatever the order in which the reads completed.
C16_BatchInFileOrder ==
  \A k \in 1..Len(requests) :
    requests[k].call = "addResultsForCases"
      => requests[k].results = ConcatenationOfFiles(1)

\* Two files that each give results; the read of the second completed first,
\* and the batch was submitted.
C16_Witness ==
  /\ command.name = "report"
  /\ Len(files) = 2
  /\ readOrder = <<2, 1>>
  /\ FileResults(files[1]) # <<>>
  /\ FileResults(files[2]) # <<>>
  /\ FileResults(files[1]) # FileResults(files[2])
  /\ Len(requests) > 0
  /\ requests[1].results = FileResults(files[1]) \o FileResults(files[2])

\* A read of a selected file has failed: it is neither pending nor answered
\* with contents.
ReadFailed ==
  \E i \in 1..Len(files) : i \notin pending /\ i \notin DOMAIN fileContents

\* C17: while a read of a selected file is pending, nothing is extracted and
\* no remote call is made; once a read has failed the command has failed,
\* with nothing extracted and no remote call, whatever the other reads gave.
C17_AllReadsBeforeExtraction ==
  command.name = "report" =>
    /\ pending # {}
         => /\ pc \in {"reading", "threw"}
            /\ caseResults = <<>>
            /\ requests = <<>>
            /\ inFlight = 0
    /\ ReadFailed
         => /\ pc = "threw"
            /\ caseResults = <<>>
            /\ requests = <<>>
            /\ inFlight = 0
            /\ stdout = Nothing

\* The read of one file gave contents with results, then the read of the
\* other failed.
C17_Witness ==
  /\ command.name = "report"
  /\ Len(files) = 2
  /\ readOrder = <<1>>
  /\ FileResults(files[1]) # <<>>
  /\ pending = {}
  /\ ReadFailed
  /\ pc = "threw"
  /\ requests = <<>>

----------------------------------------------------------------------------
(* Properties of the retries, checked under Spec *)

\* The call a command issues first, from its arguments and, for report, from
\* the case results of the selected files.
FirstCall ==
  CASE command.name = "init" ->
         addRunCall(command.projectId, command.suiteId, command.runName,
                    command.description, command.milestoneId)
    [] command.name = "finish" -> [call |-> "closeRun", runId |-> command.runId]
    [] command.name = "report" ->
         [call |-> "addResultsForCases", runId |-> command.runId,
          results |-> ConcatenationOfFiles(1)]

\* C18: every call of an invocation, the first and each retry, is the same
\* call with the same arguments; in report each carries the same batch.
C18_RetriesRepeatTheCall ==
  \A k \in 1..Len(requests) : requests[k] = FirstCall

\* A report retried to the end of the budget with a batch of three results.
C18_Witness ==
  /\ command.name = "report"
  /\ Len(requests) = maxCallAttemptsAllowed + 1
  /\ Len(requests[1].results) = 3
  /\ \A k \in 1..Len(requests) : requests[k] = requests[1]

----------------------------------------------------------------------------
(* Properties of the roots and children without testcases, checked under   *)
(* SpecExtract                                                             *)

\* C19: a document made of testsuite nodes is extracted without abort, a
\* testsuite without children contributing nothing and the children of a
\* testsuite that are not testcase nodes being skipped.
C19_ChildlessSuiteContributesNothing ==
  (probe.op = "extract" /\ WellFormed(probe.root))
    => /\ ~probe.out.exited
       /\ probe.out.caseResults =
            (IF probe.root.name = "testsuite"
             THEN SuiteResults(probe.root)
             ELSE Concatenation(probe.root.children, 1))

\* The half of it that the code keeps: in a testsuite that has children, the
\* children that are not testcase nodes are skipped without abort.
NonTestcaseChildrenAreSkipped ==
  (/\ probe.op = "extract"
   /\ WellFormed(probe.root)
   /\ NoChildlessSuite(probe.root))
    => /\ ~probe.out.exited
       /\ probe.out.caseResults =
            (IF probe.root.name = "testsuite"
             THEN SuiteResults(probe.root)
             ELSE Concatenation(probe.root.children, 1))

----------------------------------------------------------------------------
(* Properties of report on an empty testsuites root, checked under Spec *)

EmptySuitesRoot(root) == root.name = "testsuites" /\ Len(root.children) = 0

\* C20: a report whose selected files all have a testsuites root without
\* children ends, once they are read, with the no-op message: no invalid-XML
\* failure, no exit code and no remote call.
C20_EmptySuitesRootIsNoOp ==
  (/\ command.name = "report"
   /\ Len(files) > 0
   /\ \A i \in 1..Len(files) : EmptySuitesRoot(readFile(files[i]))
   /\ pc \notin {"reading", "threw"})
    => /\ pc = "returned"
       /\ stdout = Line("Did not parse any test XML files.", Null)
       /\ stderr = Nothing
       /\ exitCode = Null
       /\ caseResults = <<>>
       /\ requests = <<>>
       /\ inFlight = 0

C20_Witness ==
  /\ command.name = "report"
  /\ files = <<EXml>>
  /\ pc = "returned"
  /\ readOrder = <<1>>
  /\ EmptySuitesRoot(fileContents[1])
  /\ stdout = Line("Did not parse any test XML files.", Null)
  /\ requests = <<>>

----------------------------------------------------------------------------
(* Properties of the elapsed field over every time value, checked under    *)
(* SpecCase                                                                *)

\* C21: the elapsed field of a case result kept for the batch, when it has
\* one, is a whole number of seconds that is at least 1, followed by "s",
\* whatever number the time attribute holds.
C21_ElapsedAtLeastOneSecond ==
  (probe.op = "caseResult" /\ probe.pushed /\ Has(probe.out, "elapsed"))
    => /\ Len(probe.out.elapsed) = 2
       /\ probe.out.elapsed[2] = "s"
       /\ probe.out.elapsed[1] \in Int
       /\ probe.out.elapsed[1] >= 1

\* The same law for the times that are not negative, the ones the rounding
\* of the code brings to 1 or more.
ElapsedAtLeastOneSecondWhenNotNegative ==
  (/\ probe.op = "caseResult"
   /\ probe.pushed
   /\ Has(probe.out, "elapsed")
   /\ Number(probe.testcase.attributes.time) >= 0)
    => /\ Len(probe.out.elapsed) = 2
       /\ probe.out.elapsed[2] = "s"
       /\ probe.out.elapsed[1] \in Int
       /\ probe.out.elapsed[1] >= 1

----------------------------------------------------------------------------
(* Properties of the fallback of the resolver, checked under SpecResolve *)

\* C22: for a (class, name) pair without a class-qualified entry, the
\* resolver returns the value of the flat table's entry for the decoded name
\* when there is one and null when there is none, and leaves the state of
\* the core as it was.
C22_FallbackToFlatTable ==
  probe.op = "resolve" =>
    LET testClass == decode(probe.testCase.attributes.class)
        testName == decode(probe.testCase.attributes.name)
    IN ~HasClassEntry(testClass, testName)
         => /\ probe.out = (IF HasFlatEntry(testName)
                            THEN <<configs.caseNameToIdMap[testName]>>
                            ELSE Null)
            /\ apiCallsAttempted = 0
            /\ requests = <<>>

\* The same law with a flat entry of value 0 counted as no entry, as the
\* truthiness test of the resolver counts it.
FallbackToFlatTableWhenNonZero ==
  probe.op = "resolve" =>
    LET testClass == decode(probe.testCase.attributes.class)
        testName == decode(probe.testCase.attributes.name)
    IN ~HasClassEntry(testClass, testName)
         => /\ probe.out = (IF HasFlatEntry(testName) /\ configs.caseNameToIdMap[testName] # 0
                            THEN <<configs.caseNameToIdMap[testName]>>
                            ELSE Null)
            /\ apiCallsAttempted = 0
            /\ requests = <<>>

----------------------------------------------------------------------------
(* Properties of the attempt counter, checked under Spec *)

\* A call is re-issued in this step: one is appended from a callback.
RetryIssued == pc = "awaiting" /\ Len(requests') = Len(requests) + 1

\* C23: the attempt counter is always between 0 and 5; in every step it
\* stays as it is, except in a step that issues a retry, where it grows by
\* exactly one.
C23_CounterBoundedAndMonotone ==
  /\ [](apiCallsAttempted \in 0..5)
  /\ [][apiCallsAttempted' = apiCallsAttempted + (IF RetryIssued THEN 1 ELSE 0)]_vars

\* Five retries were issued and the counter is at its maximum.
C23_Witness ==
  /\ command.name = "finish"
  /\ Len(requests) = 6
  /\ apiCallsAttempted = 5
  /\ pc = "awaiting"

----------------------------------------------------------------------------
(* Properties of the end of an invocation, checked under SpecLive *)

\* The command has reached an outcome: success or failure through
\* process.exit, the no-op of report, or the failure of the file system
\* before any call was made.
Ended ==
  \/ pc \in {"exited", "returned"}
  \/ pc = "threw" /\ nResponses = 0

\* The retry loop was started and is over.
LoopOver == Invoked /\ nResponses > 0 /\ pc # "awaiting"

\* C24: every command invoked reaches an outcome, and a retry loop that is
\* over ended in success or with the budget exhausted.
C24_EveryInvocationEnds ==
  /\ Invoked ~> Ended
  /\ [](LoopOver =>
          /\ pc = "exited"
          /\ \/ exitCode = <<0>>
             \/ exitCode = <<1>> /\ apiCallsAttempted = maxCallAttemptsAllowed)

\* The same law apart from the responses that are not JSON, on which the
\* callback throws.
EveryInvocationEndsUnlessMalformed ==
  /\ Invoked ~> (Ended \/ response = Malformed)
  /\ []((LoopOver /\ response # Malformed) =>
          /\ pc = "exited"
          /\ \/ exitCode = <<0>>
             \/ exitCode = <<1>> /\ apiCallsAttempted = maxCallAttemptsAllowed)

====
